---- MODULE Spec2Model ----
(***************************************************************************)
(* Inventory replenishment agent (agent.py, inventory.py, llm.py,          *)
(* state.py): the cursor state machine of on_date_change, the candidate    *)
(* pool, the correction pass of the selection and the three-store          *)
(* purchase protocol.                                                      *)
(*                                                                         *)
(* Dates are day numbers: the code compares ISO date strings, whose        *)
(* lexicographic order is the chronological order, and subtracts them      *)
(* after date.fromisoformat.                                               *)
(***************************************************************************)
EXTENDS Integers, Sequences, FiniteSets, TLC

\* ---------------------------------------------------------------- bounds
MaxDate == 6          \* the clock reports current_date in 0..MaxDate
MaxStart == 1         \* the clock reports start_date in 0..MaxStart
MaxSold == 2          \* rows of dms_cars the sales writer marks sold
MaxSaleDate == 1      \* the sales writer stamps sale_date in 1..MaxSaleDate
MaxRaw == 2           \* length of the raw selection list of the service
MaxPool == 2          \* pool size in the specification of the correction pass
MaxSoldCount == 4     \* sold_count in the specification of the correction pass
MaxRunSales == 3      \* rows marked sold in the specification with the clock's sale dates
MaxBuys == 2          \* lot rows added in the specification of purchase_car
MaxSlots == 2         \* max_candidates in the specification of get_candidate_pool
MaxMarket == 2        \* rows of sim_cars in the specification of get_candidate_pool
MaxLot == 4           \* sold rows of dms_cars in the specification of the order size
MaxOffer == 5         \* rows of sim_cars in the specification of the order size

\* ------------------------------------------------------ program constants
CYCLE_DAYS == 3
MIN_SALES_TO_ORDER == 2
MAX_CANDIDATES == 80
SAME_MAKE_CAP == 60

None == -1            \* Python's None in an Optional[str] date

Dates == 0 .. MaxDate
StartDates == 0 .. MaxStart
SaleDates == 1 .. MaxSaleDate

Max(a, b) == IF a >= b THEN a ELSE b
Min(a, b) == IF a <= b THEN a ELSE b

\* ------------------------------------------------------------- state.py
\* AgentState(): every field defaults to None
AgentState ==
  [sim_start_date |-> None, last_cycle_date |-> None, last_order_date |-> None]

\* The state file. json tells what json.load makes of its text: "object" (a
\* JSON object, its members in data), "malformed" (not JSON: JSONDecodeError)
\* or "other" (valid JSON that is no object: an array, a number, a string,
\* true, false or null).
NoFile == [exists |-> FALSE, json |-> "object", data |-> << >>]

\* data.get(k)
Get(data, k) == IF k \in DOMAIN data THEN data[k] ELSE None

\* data.get on a list, number, string, bool or None raises AttributeError,
\* which is not among the exceptions load_state catches
load_state_raises(file) == file.exists /\ file.json = "other"

\* the AgentState load_state returns when it does not raise
load_state(file) ==
  IF ~file.exists \/ file.json # "object" THEN AgentState
  ELSE [sim_start_date |-> Get(file.data, "sim_start_date"),
        last_cycle_date |-> Get(file.data, "last_cycle_date"),
        last_order_date |-> Get(file.data, "last_order_date")]

\* json.dump(asdict(state)) to a temp file, then os.replace
save_state(st) == [exists |-> TRUE, json |-> "object", data |-> st]

\* ---------------------------------------------------------- the stores
\* dms.db / dms_cars: the lot inventory, one record per row, in rowid order
DmsRow(vin, make) ==
  [vin |-> vin, make |-> make, status |-> "available", sale_date |-> None]

InitDms == << DmsRow(10, "A"), DmsRow(11, "A") >>

\* cars_available.db / sim_cars: the market pool; row i has pool id i.
\* Rows 1 and 2 offer the same VIN under two pool ids.
SimRow(id, vin, make) ==
  [id |-> id, vin |-> vin, make |-> make, status |-> "available"]

InitSimCars == << SimRow(1, 1, "A"), SimRow(2, 1, "B") >>

\* a car_id that is the id of no market row and of no pool of a specification
UnknownId == 0

\* ------------------------------------------------------- inventory.py
\* ORDER BY sale_date ASC
RECURSIVE InsertBySaleDate(_, _)
InsertBySaleDate(row, s) ==
  IF s = << >> THEN << row >>
  ELSE IF row.sale_date < Head(s).sale_date THEN << row >> \o s
  ELSE << Head(s) >> \o InsertBySaleDate(row, Tail(s))

RECURSIVE SortBySaleDate(_)
SortBySaleDate(s) ==
  IF s = << >> THEN << >>
  ELSE InsertBySaleDate(s[Len(s)], SortBySaleDate(SubSeq(s, 1, Len(s) - 1)))

\* WHERE status = 'sold' AND sale_date > ?   (a NULL parameter matches no row)
get_sold_cars_since(since_date, lot) ==
  LET Sold(r) == r.status = "sold" /\ since_date # None /\ r.sale_date > since_date
  IN SortBySaleDate(SelectSeq(lot, Sold))

\* SELECT vin FROM dms_cars, as a set
get_vins_in_dms(lot) == {lot[i].vin : i \in 1 .. Len(lot)}

\* SELECT ... FROM sim_cars WHERE status = 'available'
available_cars(cars) ==
  LET Avail(c) == c.status = "available" IN SelectSeq(cars, Avail)

\* mutant: the lot's VINs are not filtered out
filter_owned_off(all_available, dms_vins) == all_available

\* [c for c in all_available if c["vin"] not in dms_vins]
filter_owned(all_available, dms_vins) ==
  LET NotOwned(c) == c.vin \notin dms_vins IN SelectSeq(all_available, NotOwned)

\* random.sample(s, k): every sequence of k elements at distinct positions of s
Samples(s, k) ==
  LET Inj == {f \in [1 .. k -> 1 .. Len(s)] :
                \A i, j \in 1 .. k : i # j => f[i] # f[j]}
  IN {[i \in 1 .. k |-> s[f[i]]] : f \in Inj}

\* get_candidate_pool with the cap on same-make cars as a parameter: the set
\* of pools the two random.sample calls can produce
CandidatePools(sold_cars, lot, cars, max_candidates, cap) ==
  LET dms_vins == get_vins_in_dms(lot)
      sold_makes == {sold_cars[i].make : i \in 1 .. Len(sold_cars)}
      all_available == filter_owned(available_cars(cars), dms_vins)
      IsSame(c) == c.make \in sold_makes
      IsOther(c) == c.make \notin sold_makes
      same_make == SelectSeq(all_available, IsSame)
      other == SelectSeq(all_available, IsOther)
      sames == IF Len(same_make) > cap THEN Samples(same_make, cap)
               ELSE {same_make}
      Fills(sm) ==
        LET remaining_slots == max_candidates - Len(sm)
        IN IF remaining_slots > 0 /\ other # << >>
           THEN Samples(other, Min(remaining_slots, Len(other)))
           ELSE {<< >>}
  IN UNION {{sm \o fill : fill \in Fills(sm)} : sm \in sames}

get_candidate_pool(sold_cars, lot, cars) ==
  CandidatePools(sold_cars, lot, cars, MAX_CANDIDATES, SAME_MAKE_CAP)

\* mutant: a failing write rolls the earlier writes back
purchase_car_rollback(car, current_date, db, fail_step) ==
  IF fail_step # 0 THEN [db |-> db, raised |-> TRUE]
  ELSE [db |-> [dms |-> Append(db.dms, DmsRow(car.vin, car.make)),
                sim_cars |-> [i \in 1 .. Len(db.sim_cars) |->
                                IF db.sim_cars[i].id = car.id
                                THEN [db.sim_cars[i] EXCEPT !.status = "used"]
                                ELSE db.sim_cars[i]],
                erp |-> Append(db.erp, [vin |-> car.vin,
                                        transaction_date |-> current_date])],
        raised |-> FALSE]

\* purchase_car: three writes, each committed on its own connection.
\* fail_step = 0: no write raises; k in 1..3: write k raises.
purchase_car(car, current_date, db, fail_step) ==
  LET lot1 == Append(db.dms, DmsRow(car.vin, car.make))
      cars1 == [i \in 1 .. Len(db.sim_cars) |->
                  IF db.sim_cars[i].id = car.id
                  THEN [db.sim_cars[i] EXCEPT !.status = "used"]
                  ELSE db.sim_cars[i]]
      erp1 == Append(db.erp, [vin |-> car.vin, transaction_date |-> current_date])
  IN IF fail_step = 1 THEN [db |-> db, raised |-> TRUE]
     ELSE IF fail_step = 2
       THEN [db |-> [db EXCEPT !.dms = lot1], raised |-> TRUE]
     ELSE IF fail_step = 3
       THEN [db |-> [db EXCEPT !.dms = lot1, !.sim_cars = cars1], raised |-> TRUE]
     ELSE [db |-> [dms |-> lot1, sim_cars |-> cars1, erp |-> erp1],
           raised |-> FALSE]

\* --------------------------------------------------------------- llm.py
\* CarSelection: car_id and reasoning; "llm" stands for any text of the service
Sel(id, why) == [car_id |-> id, reasoning |-> why]

AUTO == "Auto-added to meet minimum order requirement."

\* the parsed selections of a raw answer listing these car ids
RawSelections(ids) == [i \in 1 .. Len(ids) |-> Sel(ids[i], "llm")]

\* mutant: every selection is kept, repeated ids too
Dedup_none(sels, seen) == sels

\* the loop over decision.selections with the seen set: first occurrences only
RECURSIVE Dedup(_, _)
Dedup(sels, seen) ==
  IF sels = << >> THEN << >>
  ELSE IF Head(sels).car_id \in seen THEN Dedup(Tail(sels), seen)
  ELSE << Head(sels) >> \o Dedup(Tail(sels), seen \cup {Head(sels).car_id})

\* mutant: backfill only, no truncation
Clamp_no_truncate(unique, candidates, min_order, max_order) ==
  IF Len(unique) < min_order
    THEN LET selected_ids == {unique[i].car_id : i \in 1 .. Len(unique)}
             NotSelected(c) == c.id \notin selected_ids
             extras == SelectSeq(candidates, NotSelected)
             n == Min(min_order - Len(unique), Len(extras))
         IN unique \o [i \in 1 .. n |-> Sel(extras[i].id, AUTO)]
  ELSE unique

\* mutant: truncation only, no backfill
Clamp_no_backfill(unique, candidates, min_order, max_order) ==
  IF Len(unique) > max_order THEN SubSeq(unique, 1, max_order) ELSE unique

\* the if / elif that truncates or backfills
Clamp(unique, candidates, min_order, max_order) ==
  IF Len(unique) > max_order THEN SubSeq(unique, 1, max_order)
  ELSE IF Len(unique) < min_order
    THEN LET selected_ids == {unique[i].car_id : i \in 1 .. Len(unique)}
             NotSelected(c) == c.id \notin selected_ids
             extras == SelectSeq(candidates, NotSelected)
             n == Min(min_order - Len(unique), Len(extras))
         IN unique \o [i \in 1 .. n |-> Sel(extras[i].id, AUTO)]
  ELSE unique

\* the correction pass of select_replacement_cars on a parsed answer
Correct(raw, candidates, min_order, max_order) ==
  Clamp(Dedup(raw, {}), candidates, min_order, max_order)

\* ------------------------------------------------------------- agent.py
min_order_of(sold_count) == Max(1, sold_count - 2)
max_order_of(sold_count, pool_size) == Min(sold_count + 2, pool_size)

\* mutant: a cursor equal to current_date counts as stale
stale_cursor_ge(st, current_date) ==
  st.last_cycle_date # None /\ st.last_cycle_date >= current_date

stale_cursor(st, current_date) ==
  st.last_cycle_date # None /\ st.last_cycle_date > current_date

needs_reset(st, current_date, sim_start_date) ==
  st.sim_start_date # sim_start_date \/ stale_cursor(st, current_date)

\* which of the three messages the reset logs
reset_log(st, current_date) ==
  IF st.sim_start_date = None THEN "init"
  ELSE IF stale_cursor(st, current_date) THEN "stale"
  ELSE "new"

reset_state(sim_start_date) ==
  [sim_start_date |-> sim_start_date, last_cycle_date |-> sim_start_date,
   last_order_date |-> sim_start_date]

\* mutant: days counted from the order cursor
days_elapsed_since_order(st, current_date) == current_date - st.last_order_date

days_elapsed(st, current_date) == current_date - st.last_cycle_date

\* mutant: the early exits leave last_cycle_date where it was
skip_cycle_noop(st, current_date) == st

\* mutant: the early exits put last_cycle_date back to the start date
skip_cycle_rewind(st, current_date) ==
  [st EXCEPT !.last_cycle_date = st.sim_start_date]

\* mutant: the early exits move both cursors
skip_cycle_both(st, current_date) ==
  [st EXCEPT !.last_cycle_date = current_date, !.last_order_date = current_date]

\* the three early exits of the cycle: only last_cycle_date moves
skip_cycle(st, current_date) == [st EXCEPT !.last_cycle_date = current_date]

\* mutant: the two assignments swapped, last_order_date moves every cycle
advance_state_swapped(st, current_date, dry, n_purchased) ==
  [st EXCEPT !.last_cycle_date = IF ~dry /\ n_purchased > 0 THEN current_date ELSE @,
             !.last_order_date = current_date]

\* "Advance state" at the end of the cycle
advance_state(st, current_date, dry, n_purchased) ==
  [st EXCEPT !.last_order_date = IF ~dry /\ n_purchased > 0 THEN current_date ELSE @,
             !.last_cycle_date = current_date]

\* mutant: the sold query starts at the cycle cursor
since_cursor_cycle(st) == st.last_cycle_date

\* since = self.state.last_order_date
since_cursor(st) == st.last_order_date

\* candidate_map.get(car_id): the empty sequence stands for None
candidate_lookup(candidates, car_id) ==
  LET Hit(c) == c.id = car_id IN SelectSeq(candidates, Hit)

\* mutant: the loop calls purchase_car in dry-run mode as well
RECURSIVE purchase_loop_wet(_, _, _, _, _, _, _)
purchase_loop_wet(sels, i, candidates, current_date, dry, fail, acc) ==
  IF i > Len(sels) THEN acc
  ELSE LET hit == candidate_lookup(candidates, sels[i].car_id)
       IN IF hit = << >>
          THEN purchase_loop_wet(sels, i + 1, candidates, current_date, dry, fail, acc)
          ELSE LET car == hit[Len(hit)]
                   r == purchase_car(car, current_date, acc.db,
                                     IF fail.at = i THEN fail.step ELSE 0)
               IN IF r.raised
                  THEN [acc EXCEPT !.db = r.db, !.raised = TRUE]
                  ELSE purchase_loop_wet(sels, i + 1, candidates, current_date,
                         dry, fail,
                         [acc EXCEPT !.db = r.db,
                                     !.purchased = Append(@, car.id),
                                     !.committed = @ + 1])

\* The purchase loop from selection i on. fail = [at, step]: the purchase_car
\* call made for selection number at raises in its write number step (at = 0:
\* no call raises). acc = [db, purchased, committed, raised].
RECURSIVE purchase_loop(_, _, _, _, _, _, _)
purchase_loop(sels, i, candidates, current_date, dry, fail, acc) ==
  IF i > Len(sels) THEN acc
  ELSE LET hit == candidate_lookup(candidates, sels[i].car_id)
       IN IF hit = << >>
          THEN purchase_loop(sels, i + 1, candidates, current_date, dry, fail, acc)
          ELSE LET car == hit[Len(hit)]
               IN IF dry
                  THEN purchase_loop(sels, i + 1, candidates, current_date, dry, fail,
                         [acc EXCEPT !.purchased = Append(@, car.id)])
                  ELSE LET r == purchase_car(car, current_date, acc.db,
                                             IF fail.at = i THEN fail.step ELSE 0)
                       IN IF r.raised
                          THEN [acc EXCEPT !.db = r.db, !.raised = TRUE]
                          ELSE purchase_loop(sels, i + 1, candidates, current_date,
                                 dry, fail,
                                 [acc EXCEPT !.db = r.db,
                                             !.purchased = Append(@, car.id),
                                             !.committed = @ + 1])

\* ------------------------------------------------------------ the state
\* One on_date_change call is one step. Its inputs are the clock record that
\* run_agent read (current_date, start_date, both present), the pool that
\* random.sample produced, the outcome of the service call (it raises, or any
\* parsed answer) and the write of purchase_car that raises, if any.
\* tick keeps what the call saw and did:
\*   date, start     the arguments current_date and sim_start_date
\*   reset           "none", or the message the reset step logged
\*   entry           the cursors after the reset step
\*   outcome         "wait" (below CYCLE_DAYS), "few_sales", "empty_pool",
\*                   "service_failed", "settled", or "raised" (purchase_car
\*                   raised and the exception left run_agent)
\*   since, sold_count, candidates (pool ids), dms_vins (VINs on the lot when
\*   the pool was built), min_order, max_order, selections (car ids of the
\*   corrected decision), purchased (ids appended to purchased), committed
\*   (purchase_car calls that returned), service_called, after_failure
VARIABLES
  state,           \* InventoryAgent.state, the cursors in memory
  state_file,      \* agent_state.json
  last_seen_date,  \* run_agent's last_seen_date
  alive,           \* the agent process is running its poll loop
  dry_run,         \* InventoryAgent.dry_run
  dms,             \* dms.db: rows of dms_cars
  sim_cars,        \* cars_available.db: rows of sim_cars
  erp,             \* erp.db: rows of erp_transactions
  tick,            \* what the last on_date_change call of this process saw and did
  last_failure,    \* the last failed service call not yet followed by another call
  hist,            \* what the cycles so far saw and counted (kept when hist.on)
  storage,         \* which of the clock file and the stores cannot be read now
  sel_call,        \* one call of the correction pass: its arguments and its result
  buy_call,        \* one call of purchase_car: its arguments and its result
  pool_call,       \* one call of get_candidate_pool: its arguments and its results
  load_call        \* one call of load_state: the file and its result

vars == << state, state_file, last_seen_date, alive, dry_run, dms, sim_cars, erp,
           tick, last_failure, hist, storage, sel_call, buy_call, pool_call,
           load_call >>

\* the calls of the functions checked on their own
call_vars == << sel_call, buy_call, pool_call, load_call >>

NoCall == [sold_count |-> 0, candidates |-> << >>, raw |-> << >>, done |-> FALSE,
           min_order |-> 0, max_order |-> 0, selections |-> << >>]

Db == [dms |-> dms, sim_cars |-> sim_cars, erp |-> erp]

NoFailure == [active |-> FALSE, date |-> None, since |-> None, reset |-> FALSE]

NoTick ==
  [date |-> None, start |-> None, reset |-> "none", entry |-> AgentState,
   outcome |-> "none", since |-> None, sold_count |-> 0, candidates |-> << >>,
   dms_vins |-> {}, min_order |-> 0, max_order |-> 0, selections |-> << >>,
   purchased |-> << >>, committed |-> 0, service_called |-> FALSE,
   after_failure |-> "no"]

\* the outcomes of a call that entered _run_ordering_cycle
CycleOutcomes == {"few_sales", "empty_pool", "service_failed", "settled", "raised"}

\* hist.prev: the last cycle since the last reset, with the rowids of its sold
\* set; before is the size of the sold set of the cycle before it when that
\* cycle found too few sales.
NoPrev == [outcome |-> "none", since |-> None, sold |-> {}, before |-> None]

\* keep = "sales": prev, run_sold (rowids sold since the last reset) and
\* counted (rowids in the sold set of a cycle that moved last_order_date) are
\* kept; keep = "dates": cycles (the dates a cycle ran for in this process)
\* and run_cycles (those since the last reset) are kept; "none": nothing is.
NoHist == [keep |-> "none", prev |-> NoPrev, run_sold |-> {}, counted |-> {},
           cycles |-> {}, run_cycles |-> {}]

\* the rowids of the rows get_sold_cars_since returns
sold_rows(since, lot) ==
  LET q == get_sold_cars_since(since, lot)
  IN {i \in 1 .. Len(lot) : \E j \in 1 .. Len(q) : q[j] = lot[i]}

\* hist after an on_date_change call whose tick is t and that leaves cursors st
Recorded(h, t, st, lot) ==
  IF h.keep = "dates"
  THEN LET h1 == IF t.reset = "none" THEN h ELSE [h EXCEPT !.run_cycles = {}]
       IN IF t.outcome \notin CycleOutcomes THEN h1
          ELSE [h1 EXCEPT !.cycles = @ \cup {t.date},
                          !.run_cycles = @ \cup {t.date}]
  ELSE IF h.keep = "sales"
  THEN LET h1 == IF t.reset = "none" THEN h
                 ELSE [h EXCEPT !.prev = NoPrev, !.run_sold = {}, !.counted = {}]
           sold == sold_rows(t.since, lot)
           h2 == IF t.outcome \notin CycleOutcomes THEN h1
                 ELSE [h1 EXCEPT
                         !.prev = [outcome |-> t.outcome, since |-> t.since,
                                   sold |-> sold,
                                   before |-> IF h1.prev.outcome = "few_sales"
                                              THEN Cardinality(h1.prev.sold)
                                              ELSE None]]
       IN IF t.outcome \in CycleOutcomes
             /\ st.last_order_date # t.entry.last_order_date
          THEN [h2 EXCEPT !.counted = @ \cup sold]
          ELSE h2
  ELSE h

NoBuy == [done |-> FALSE, car |-> 0, date |-> None, fail_step |-> 0,
          before |-> [dms |-> << >>, sim_cars |-> << >>, erp |-> << >>],
          raised |-> FALSE]

NoPool == [done |-> FALSE, sold_cars |-> << >>, max_candidates |-> 0, pools |-> {}]

NoLoad == [done |-> FALSE, raised |-> FALSE, result |-> AgentState]

RawIds == (1 .. Len(InitSimCars)) \cup {UnknownId}
RawAnswers == UNION {[1 .. n -> RawIds] : n \in 0 .. MaxRaw}

\* the answer that selects every candidate of the prompt, in the prompt's order
FullAnswer(candidates) == [i \in 1 .. Len(candidates) |-> candidates[i].id]

NoFail == [at |-> 0, step |-> 0]
Fails(n) == {NoFail} \cup [at : 1 .. n, step : 1 .. 3]

\* InventoryAgent.__init__ with no state file yet, before the first poll
Init ==
  /\ state_file = NoFile
  /\ state = load_state(NoFile)
  /\ last_seen_date = None
  /\ alive = TRUE
  /\ dry_run \in BOOLEAN
  /\ dms = InitDms
  /\ sim_cars = InitSimCars
  /\ erp = << >>
  /\ tick = NoTick
  /\ last_failure = NoFailure
  /\ hist = NoHist
  /\ storage = "ok"
  /\ sel_call = NoCall
  /\ buy_call = NoBuy
  /\ pool_call = NoPool
  /\ load_call = NoLoad

\* on_date_change returns to run_agent, which sets last_seen_date
Return(st, file, db, t, lf) ==
  /\ state' = st
  /\ state_file' = file
  /\ dms' = db.dms
  /\ sim_cars' = db.sim_cars
  /\ erp' = db.erp
  /\ tick' = t
  /\ last_failure' = lf
  /\ last_seen_date' = t.date
  /\ hist' = Recorded(hist, t, st, dms)
  /\ UNCHANGED << alive, dry_run, storage, call_vars >>

\* an exception leaves on_date_change and run_agent: the process ends
Raise(st, file, db, t, lf) ==
  /\ state' = st
  /\ state_file' = file
  /\ dms' = db.dms
  /\ sim_cars' = db.sim_cars
  /\ erp' = db.erp
  /\ tick' = t
  /\ last_failure' = lf
  /\ alive' = FALSE
  /\ hist' = Recorded(hist, t, st, dms)
  /\ UNCHANGED << last_seen_date, dry_run, storage, call_vars >>

_run_ordering_cycle(st, file, current_date, t0, lf) ==
  LET since == since_cursor(st)
      sold_cars == get_sold_cars_since(since, dms)
      sold_count == Len(sold_cars)
      skipped == skip_cycle(st, current_date)
      t1 == [t0 EXCEPT !.since = since, !.sold_count = sold_count]
  IN IF storage = "no_dms"
     THEN \* query("dms.db", ...) raises in get_sold_cars_since
          Raise(st, file, Db, [t0 EXCEPT !.outcome = "store_error"], lf)
     ELSE IF sold_count < MIN_SALES_TO_ORDER
     THEN Return(skipped, save_state(skipped), Db,
                 [t1 EXCEPT !.outcome = "few_sales"], lf)
     ELSE IF storage = "no_cars"
     THEN \* query("cars_available.db", ...) raises in get_candidate_pool
          Raise(st, file, Db, [t1 EXCEPT !.outcome = "store_error"], lf)
     ELSE \E candidates \in get_candidate_pool(sold_cars, dms, sim_cars) :
       LET t2 == [t1 EXCEPT
                    !.candidates = [i \in 1 .. Len(candidates) |-> candidates[i].id],
                    !.dms_vins = get_vins_in_dms(dms)]
       IN IF candidates = << >>
          THEN Return(skipped, save_state(skipped), Db,
                      [t2 EXCEPT !.outcome = "empty_pool"], lf)
          ELSE
            LET min_order == min_order_of(sold_count)
                max_order == max_order_of(sold_count, Len(candidates))
                t3 == [t2 EXCEPT !.min_order = min_order, !.max_order = max_order,
                                 !.service_called = TRUE, !.after_failure = IF ~lf.active THEN "no"
                                                    ELSE IF lf.reset THEN "reset"
                                                    ELSE "yes"]
            IN \/ \* select_replacement_cars raises
                  Return(skipped, save_state(skipped), Db,
                         [t3 EXCEPT !.outcome = "service_failed"],
                         [active |-> TRUE, date |-> current_date, since |-> since,
                          reset |-> FALSE])
               \/ \E sels \in {Correct(RawSelections(raw), candidates,
                                         min_order, max_order) :
                                 raw \in RawAnswers \cup {FullAnswer(candidates)}} :
                    \E fail \in (IF dry_run THEN {NoFail} ELSE Fails(Len(sels))) :
                      LET r == purchase_loop(sels, 1, candidates, current_date,
                                 dry_run, fail,
                                 [db |-> Db, purchased |-> << >>, committed |-> 0,
                                  raised |-> FALSE])
                          t4 == [t3 EXCEPT
                                   !.selections = [i \in 1 .. Len(sels) |-> sels[i].car_id],
                                   !.purchased = r.purchased,
                                   !.committed = r.committed]
                          done == advance_state(st, current_date, dry_run,
                                                Len(r.purchased))
                      IN IF r.raised
                         THEN Raise(st, file, r.db, [t4 EXCEPT !.outcome = "raised"],
                                    NoFailure)
                         ELSE Return(done, save_state(done), r.db,
                                     [t4 EXCEPT !.outcome = "settled"], NoFailure)

\* one poll of run_agent that reads this clock record: status running, a
\* current_date that differs from last_seen_date
poll(current_date, sim_start_date) ==
  /\ alive
  /\ storage \notin {"no_clock", "clock_not_object"}
  /\ current_date # last_seen_date
  /\ LET reset == needs_reset(state, current_date, sim_start_date)
         kind == IF ~reset THEN "none" ELSE reset_log(state, current_date)
         st1 == IF reset THEN reset_state(sim_start_date) ELSE state
         file1 == IF reset THEN save_state(st1) ELSE state_file
         lf1 == IF reset /\ last_failure.active
                THEN [last_failure EXCEPT !.reset = TRUE] ELSE last_failure
         t0 == [NoTick EXCEPT !.date = current_date, !.start = sim_start_date,
                              !.reset = kind, !.entry = st1]
     IN IF st1.last_cycle_date = None
        THEN \* date.fromisoformat(None) raises TypeError
             Raise(st1, file1, Db, [t0 EXCEPT !.outcome = "type_error"], lf1)
        ELSE IF days_elapsed(st1, current_date) < CYCLE_DAYS
        THEN Return(st1, file1, Db, [t0 EXCEPT !.outcome = "wait"], lf1)
        ELSE _run_ordering_cycle(st1, file1, current_date, t0, lf1)

\* the clock may show any date and any start date at the next poll
on_date_change ==
  \E current_date \in Dates, sim_start_date \in StartDates :
    poll(current_date, sim_start_date)

\* main() again after the process ended: load_state, last_seen_date = None
restart ==
  /\ ~alive
  /\ ~load_state_raises(state_file)
  /\ alive' = TRUE
  /\ state' = load_state(state_file)
  /\ last_seen_date' = None
  /\ tick' = NoTick
  /\ hist' = [hist EXCEPT !.cycles = {}, !.run_cycles = {}]
  /\ UNCHANGED << state_file, dry_run, dms, sim_cars, erp, last_failure, storage,
                  call_vars >>

\* the simulation records a sale: UPDATE dms_cars SET status = 'sold', sale_date
sell_car ==
  /\ Cardinality({i \in 1 .. Len(dms) : dms[i].status = "sold"}) < MaxSold
  /\ \E i \in 1 .. Len(dms), d \in SaleDates :
       /\ dms[i].status = "available"
       /\ dms' = [dms EXCEPT ![i] = [@ EXCEPT !.status = "sold", !.sale_date = d]]
  /\ UNCHANGED << state, state_file, last_seen_date, alive, dry_run, sim_cars, erp,
                  tick, last_failure, hist, storage, call_vars >>

Next == on_date_change \/ restart \/ sell_car

Spec == Init /\ [][Next]_vars

\* ----------------------------- the agent beside the sales writer, with history
\* The sales writer stamps a sale with the date the clock shows. It writes
\* while the clock still shows the date the agent reacted to last, so a sale
\* of day d can land after the agent's call for day d has returned.
InitHist ==
  /\ state_file = NoFile
  /\ state = load_state(NoFile)
  /\ last_seen_date = None
  /\ alive = TRUE
  /\ dry_run \in BOOLEAN
  /\ dms = InitDms
  /\ sim_cars = InitSimCars
  /\ erp = << >>
  /\ tick = NoTick
  /\ last_failure = NoFailure
  /\ hist = [NoHist EXCEPT !.keep = "sales"]
  /\ storage = "ok"
  /\ sel_call = NoCall
  /\ buy_call = NoBuy
  /\ pool_call = NoPool
  /\ load_call = NoLoad

\* UPDATE dms_cars SET status = 'sold', sale_date = <the clock's current_date>
record_sale ==
  /\ alive
  /\ last_seen_date # None
  /\ Cardinality({i \in 1 .. Len(dms) : dms[i].status = "sold"}) < MaxRunSales
  /\ \E i \in 1 .. Len(dms) :
       /\ dms[i].status = "available"
       /\ dms' = [dms EXCEPT ![i] = [@ EXCEPT !.status = "sold",
                                              !.sale_date = last_seen_date]]
       /\ hist' = [hist EXCEPT !.run_sold = IF hist.keep = "sales" THEN @ \cup {i}
                                             ELSE @]
  /\ UNCHANGED << state, state_file, last_seen_date, alive, dry_run, sim_cars, erp,
                  tick, last_failure, storage, call_vars >>

\* the clock moved forward since the last poll that saw a new date
day_passes ==
  \E current_date \in Dates, sim_start_date \in StartDates :
    /\ current_date > last_seen_date
    /\ poll(current_date, sim_start_date)

NextHist == day_passes \/ record_sale

SpecHist == InitHist /\ [][NextHist]_vars

\* ------------------------------- the agent under any clock, with history
\* The clock may repeat a date, jump forward or go backwards, as in Spec;
\* hist keeps the dates the cycles ran for. Whether a call starts a cycle
\* depends on the cursors and the clock record only, so no sale is written.
InitClock ==
  /\ state_file = NoFile
  /\ state = load_state(NoFile)
  /\ last_seen_date = None
  /\ alive = TRUE
  /\ dry_run \in BOOLEAN
  /\ dms = InitDms
  /\ sim_cars = InitSimCars
  /\ erp = << >>
  /\ tick = NoTick
  /\ last_failure = NoFailure
  /\ hist = [NoHist EXCEPT !.keep = "dates"]
  /\ storage = "ok"
  /\ sel_call = NoCall
  /\ buy_call = NoBuy
  /\ pool_call = NoPool
  /\ load_call = NoLoad

NextClock == on_date_change

SpecClock == InitClock /\ [][NextClock]_vars

\* ------------------------------------ the agent with storage that can fail
\* storage names the one thing that cannot be read now:
\*   "no_clock"          simulation_state.json is missing or is not JSON
\*   "clock_not_object"  simulation_state.json holds JSON that is not an object
\*   "no_dms"            dms.db is missing or corrupt
\*   "no_cars"           cars_available.db is missing or corrupt
StorageKinds == {"ok", "no_clock", "clock_not_object", "no_dms", "no_cars"}

\* files appear, disappear or get damaged between two polls
storage_changes ==
  /\ \E s \in StorageKinds : s # storage /\ storage' = s
  /\ UNCHANGED << state, state_file, last_seen_date, alive, dry_run, dms, sim_cars, erp,
                  tick, last_failure, hist, call_vars >>

\* open / json.load raise FileNotFoundError or JSONDecodeError: sleep, continue
poll_unreadable ==
  /\ alive
  /\ storage = "no_clock"
  /\ UNCHANGED vars

\* sim_state.get raises AttributeError, which run_agent does not catch
poll_not_object ==
  /\ alive
  /\ storage = "clock_not_object"
  /\ alive' = FALSE
  /\ tick' = [NoTick EXCEPT !.outcome = "clock_error"]
  /\ UNCHANGED << state, state_file, last_seen_date, dry_run, dms, sim_cars, erp,
                  last_failure, hist, storage, call_vars >>

NextPoll ==
  on_date_change \/ poll_unreadable \/ poll_not_object \/ restart \/ sell_car
    \/ storage_changes

SpecPoll == Init /\ [][NextPoll]_vars

\* ------------------------------------------------- the agent in dry-run mode
\* A market with two vehicles of a make that was not sold: random.sample
\* returns them in either order.
DryMarket == << SimRow(1, 1, "B"), SimRow(2, 2, "B") >>

InitDry ==
  /\ state_file = NoFile
  /\ state = load_state(NoFile)
  /\ last_seen_date = None
  /\ alive = TRUE
  /\ dry_run = TRUE
  /\ dms = InitDms
  /\ sim_cars = DryMarket
  /\ erp = << >>
  /\ tick = NoTick
  /\ last_failure = NoFailure
  /\ hist = NoHist
  /\ storage = "ok"
  /\ sel_call = NoCall
  /\ buy_call = NoBuy
  /\ pool_call = NoPool
  /\ load_call = NoLoad

NextDry == on_date_change \/ sell_car

SpecDry == InitDry /\ [][NextDry]_vars

\* --------------------------------------------- load_state on its own
\* Any state file: absent, not JSON, JSON that is no object, or an object
\* with any of the three members, each a date, null or a value that is no
\* date.
StateKeys == {"sim_start_date", "last_cycle_date", "last_order_date"}

\* a member value that is no ISO date (a number, "soon", ...)
NotADate == None - 1

MemberValues == StartDates \cup {None, NotADate}

StateFiles ==
  {NoFile,
   [exists |-> TRUE, json |-> "malformed", data |-> << >>],
   [exists |-> TRUE, json |-> "other", data |-> << >>]}
    \cup {[exists |-> TRUE, json |-> "object", data |-> d] :
            d \in UNION {[K -> MemberValues] : K \in SUBSET StateKeys}}

InitLoad ==
  /\ state_file \in StateFiles
  /\ state = AgentState
  /\ last_seen_date = None
  /\ alive = TRUE
  /\ dry_run = FALSE
  /\ dms = InitDms
  /\ sim_cars = InitSimCars
  /\ erp = << >>
  /\ tick = NoTick
  /\ last_failure = NoFailure
  /\ hist = NoHist
  /\ storage = "ok"
  /\ sel_call = NoCall
  /\ buy_call = NoBuy
  /\ pool_call = NoPool
  /\ load_call = NoLoad

\* InventoryAgent.__init__: self.state = load_state(state_path)
load_state_call ==
  /\ ~load_call.done
  /\ IF load_state_raises(state_file)
     THEN /\ load_call' = [done |-> TRUE, raised |-> TRUE, result |-> AgentState]
          /\ alive' = FALSE
          /\ state' = state
     ELSE /\ load_call' = [done |-> TRUE, raised |-> FALSE,
                           result |-> load_state(state_file)]
          /\ alive' = alive
          /\ state' = load_state(state_file)
  /\ UNCHANGED << state_file, last_seen_date, dry_run, dms, sim_cars, erp, tick,
                  last_failure, hist, storage, sel_call, buy_call, pool_call >>

NextLoad == load_state_call

SpecLoad == InitLoad /\ [][NextLoad]_vars

\* ------------------------------------- get_candidate_pool on its own
\* Any max_candidates from 1 on, any market of up to MaxMarket rows (row i has
\* pool id i and VIN i or a VIN of the lot, either make, either status) and
\* any list of up to two sold vehicles.
Makes == {"A", "B"}

Markets ==
  UNION {{m \in [1 .. n -> [id : 1 .. n, vin : (1 .. n) \cup {10}, make : Makes,
                            status : {"available", "used"}]] :
            \A i \in 1 .. n : m[i].id = i /\ m[i].vin \in {i, 10}} :
         n \in 0 .. MaxMarket}

SoldLists == UNION {[1 .. n -> [make : Makes]] : n \in 0 .. 2}

InitPool ==
  /\ state_file = NoFile
  /\ state = load_state(NoFile)
  /\ last_seen_date = None
  /\ alive = TRUE
  /\ dry_run = FALSE
  /\ dms = InitDms
  /\ sim_cars \in Markets
  /\ erp = << >>
  /\ tick = NoTick
  /\ last_failure = NoFailure
  /\ hist = NoHist
  /\ storage = "ok"
  /\ sel_call = NoCall
  /\ buy_call = NoBuy
  /\ \E sold_cars \in SoldLists, max_candidates \in 1 .. MaxSlots :
       pool_call = [NoPool EXCEPT !.sold_cars = sold_cars,
                                  !.max_candidates = max_candidates]
  /\ load_call = NoLoad

get_candidate_pool_call ==
  /\ ~pool_call.done
  /\ pool_call' = [pool_call EXCEPT
                     !.done = TRUE,
                     !.pools = CandidatePools(pool_call.sold_cars, dms, sim_cars,
                                              pool_call.max_candidates, SAME_MAKE_CAP)]
  /\ UNCHANGED << state, state_file, last_seen_date, alive, dry_run, dms, sim_cars, erp,
                  tick, last_failure, hist, storage, sel_call, buy_call, load_call >>

NextPool == get_candidate_pool_call

SpecPool == InitPool /\ [][NextPool]_vars

\* ------------------------------------------ purchase_car on its own
\* Calls of purchase_car for any market row and date, one after the other on
\* the same three stores; any one of the three writes of a call may raise.
InitPurchase ==
  /\ state_file = NoFile
  /\ state = load_state(NoFile)
  /\ last_seen_date = None
  /\ alive = TRUE
  /\ dry_run = FALSE
  /\ dms = InitDms
  /\ sim_cars = InitSimCars
  /\ erp = << >>
  /\ tick = NoTick
  /\ last_failure = NoFailure
  /\ hist = NoHist
  /\ storage = "ok"
  /\ sel_call = NoCall
  /\ buy_call = NoBuy
  /\ pool_call = NoPool
  /\ load_call = NoLoad

purchase_car_call ==
  /\ Len(dms) < Len(InitDms) + MaxBuys
  /\ \E i \in 1 .. Len(sim_cars), current_date \in Dates, fail_step \in 0 .. 3 :
       LET r == purchase_car(sim_cars[i], current_date, Db, fail_step)
       IN /\ dms' = r.db.dms
          /\ sim_cars' = r.db.sim_cars
          /\ erp' = r.db.erp
          /\ buy_call' = [done |-> TRUE, car |-> sim_cars[i].id, date |-> current_date,
                          fail_step |-> fail_step, before |-> Db,
                          raised |-> r.raised]
  /\ UNCHANGED << state, state_file, last_seen_date, alive, dry_run, tick,
                  last_failure, hist, storage, sel_call, pool_call, load_call >>

NextPurchase == purchase_car_call

SpecPurchase == InitPurchase /\ [][NextPurchase]_vars

\* ------------------------------------------------- the size of an order
\* A lot on which any number of cars up to MaxLot was sold on day 1 and a
\* market of up to MaxOffer cars of the make that was sold, each with a VIN of
\* its own: sold_count and pool_size take every combination, those with
\* pool_size > sold_count + 2 and those with min_order > max_order too. The
\* agent starts on these stores and reacts to the first date it sees.
OrderLot(sold) ==
  [i \in 1 .. MaxLot |->
     IF i <= sold
     THEN [DmsRow(10 + i, "A") EXCEPT !.status = "sold", !.sale_date = 1]
     ELSE DmsRow(10 + i, "A")]

OrderMarket(offered) == [i \in 1 .. offered |-> SimRow(i, i, "A")]

InitOrder ==
  /\ state_file = NoFile
  /\ state = load_state(NoFile)
  /\ last_seen_date = None
  /\ alive = TRUE
  /\ dry_run \in BOOLEAN
  /\ \E sold \in 0 .. MaxLot : dms = OrderLot(sold)
  /\ \E offered \in 1 .. MaxOffer : sim_cars = OrderMarket(offered)
  /\ erp = << >>
  /\ tick = NoTick
  /\ last_failure = NoFailure
  /\ hist = NoHist
  /\ storage = "ok"
  /\ sel_call = NoCall
  /\ buy_call = NoBuy
  /\ pool_call = NoPool
  /\ load_call = NoLoad

\* the first poll of run_agent that sees a date: last_seen_date is still None
first_poll ==
  \E current_date \in Dates, sim_start_date \in StartDates :
    /\ last_seen_date = None
    /\ poll(current_date, sim_start_date)

NextOrder == first_poll

SpecOrder == InitOrder /\ [][NextOrder]_vars

\* ------------------------------- the agent started on a state file it finds
\* The state file is a JSON object with any of the three members, each a
\* start date or null; the lot has MIN_SALES_TO_ORDER cars sold on day 1.
ResumeFiles ==
  {[exists |-> TRUE, json |-> "object", data |-> d] :
     d \in UNION {[K -> StartDates \cup {None}] : K \in SUBSET StateKeys}}

InitResume ==
  /\ state_file \in ResumeFiles
  /\ state = load_state(state_file)
  /\ last_seen_date = None
  /\ alive = TRUE
  /\ dry_run = FALSE
  /\ dms = OrderLot(MIN_SALES_TO_ORDER)
  /\ sim_cars = InitSimCars
  /\ erp = << >>
  /\ tick = NoTick
  /\ last_failure = NoFailure
  /\ hist = NoHist
  /\ storage = "ok"
  /\ sel_call = NoCall
  /\ buy_call = NoBuy
  /\ pool_call = NoPool
  /\ load_call = NoLoad

NextResume == first_poll

SpecResume == InitResume /\ [][NextResume]_vars

\* ------------------------------------- the correction pass on its own
\* Arguments as _run_ordering_cycle passes them: sold_count at least
\* MIN_SALES_TO_ORDER, a non-empty pool of distinct pool ids, the bounds of
\* the "Compute order quantity bounds" step, and any parsed answer.
PoolIds == 1 .. MaxPool
Pools == UNION {{p \in [1 .. n -> PoolIds] : \A i, j \in 1 .. n : i # j => p[i] # p[j]} :
                 n \in 1 .. MaxPool}
SelectAnswers == UNION {[1 .. n -> PoolIds \cup {UnknownId}] : n \in 0 .. MaxRaw}

InitSelect ==
  /\ state_file = NoFile
  /\ state = load_state(NoFile)
  /\ last_seen_date = None
  /\ alive = TRUE
  /\ dry_run = FALSE
  /\ dms = InitDms
  /\ sim_cars = InitSimCars
  /\ erp = << >>
  /\ tick = NoTick
  /\ last_failure = NoFailure
  /\ hist = NoHist
  /\ storage = "ok"
  /\ buy_call = NoBuy
  /\ pool_call = NoPool
  /\ load_call = NoLoad
  /\ \E n \in MIN_SALES_TO_ORDER .. MaxSoldCount, p \in Pools, raw \in SelectAnswers :
       sel_call = [NoCall EXCEPT !.sold_count = n, !.candidates = p, !.raw = raw]

select_replacement_cars ==
  /\ ~sel_call.done
  /\ LET candidates == [i \in 1 .. Len(sel_call.candidates) |->
                          [id |-> sel_call.candidates[i]]]
         min_order == min_order_of(sel_call.sold_count)
         max_order == max_order_of(sel_call.sold_count, Len(candidates))
     IN sel_call' = [sel_call EXCEPT
                       !.done = TRUE, !.min_order = min_order, !.max_order = max_order,
                       !.selections = Correct(RawSelections(sel_call.raw), candidates,
                                              min_order, max_order)]
  /\ UNCHANGED << state, state_file, last_seen_date, alive, dry_run, dms, sim_cars, erp,
                  tick, last_failure, hist, storage, buy_call, pool_call, load_call >>

NextSelect == select_replacement_cars

SpecSelect == InitSelect /\ [][NextSelect]_vars

\* ============================================================== claims
\* a step of on_date_change: it returns (last_seen_date moves) or raises
Step == alive /\ (last_seen_date' # last_seen_date \/ ~alive')

\* the last on_date_change call entered _run_ordering_cycle
Cycled ==
  tick.outcome \in {"few_sales", "empty_pool", "service_failed", "settled", "raised"}

StoresUnchanged == dms' = dms /\ sim_cars' = sim_cars /\ erp' = erp

AllCursors(d) ==
  [sim_start_date |-> d, last_cycle_date |-> d, last_order_date |-> d]

\* C1: in every decision cycle, last_order_date is moved to current_date if
\* and only if at least one purchase_car call of that cycle committed.
C1_Claim ==
  Cycled =>
    ((state.last_order_date = tick.date /\ tick.entry.last_order_date # tick.date)
       <=> tick.committed >= 1)

\* C2: once on_date_change has run, last_order_date <= last_cycle_date, in
\* memory and in the state file.
C2_OrderNotAfterCycle ==
  /\ state.sim_start_date # None =>
       /\ state.last_order_date # None
       /\ state.last_order_date <= state.last_cycle_date
  /\ state_file.exists =>
       /\ load_state(state_file).last_order_date # None
       /\ load_state(state_file).last_order_date
            <= load_state(state_file).last_cycle_date

\* an order was placed and a later cycle moved last_cycle_date past it
C2_Witness ==
  /\ state.last_order_date > state.sim_start_date
  /\ state.last_cycle_date > state.last_order_date

\* C3 as stated: for every sold_count >= MIN_SALES_TO_ORDER, non-empty pool and
\* raw answer, the corrected selection count lies in [min_order, max_order].
C3_Claim ==
  sel_call.done =>
    /\ sel_call.min_order <= Len(sel_call.selections)
    /\ Len(sel_call.selections) <= sel_call.max_order

\* C3 amended: whenever min_order <= max_order, the corrected selection count
\* lies in [min_order, max_order].
C3_CountWithinBounds ==
  (sel_call.done /\ sel_call.min_order <= sel_call.max_order) =>
    /\ sel_call.min_order <= Len(sel_call.selections)
    /\ Len(sel_call.selections) <= sel_call.max_order

\* an answer shorter than min_order = 2 was backfilled up to it
C3_Witness ==
  /\ sel_call.done
  /\ sel_call.min_order <= sel_call.max_order
  /\ sel_call.min_order >= 2
  /\ Len(sel_call.raw) < sel_call.min_order
  /\ Len(sel_call.selections) = sel_call.min_order

\* C4: no vehicle of the pool get_candidate_pool returns has a VIN that is in
\* lot inventory, in any status, when the pool is built.
C4_PoolExcludesLotVins ==
  \A i \in 1 .. Len(tick.candidates) :
    sim_cars[tick.candidates[i]].vin \notin tick.dms_vins

\* a pool was built while the market offered, as available, a VIN on the lot
C4_Witness ==
  /\ tick.outcome = "empty_pool"
  /\ \E i \in 1 .. Len(sim_cars) :
       sim_cars[i].status = "available" /\ sim_cars[i].vin \in tick.dms_vins

\* C5: the agent never inserts into lot inventory a vehicle whose VIN is
\* already there: no two rows of dms_cars share a VIN.
C5_Claim ==
  \A i, j \in 1 .. Len(dms) : i < j => dms[i].vin # dms[j].vin

\* C6 as stated: a tick with days_elapsed < CYCLE_DAYS runs no cycle and
\* leaves the three cursors unchanged.
C6_Claim ==
  [][(Step /\ tick'.date - tick'.entry.last_cycle_date < CYCLE_DAYS) =>
       /\ tick'.outcome = "wait"
       /\ state' = state]_vars

\* C6 amended: a tick with days_elapsed < CYCLE_DAYS runs no cycle, writes no
\* store, and changes the cursors only by the reset step of that tick: with
\* no reset they are unchanged, with a reset all three are the start date.
C6_WaitKeepsCursors ==
  [][(Step /\ tick'.date - tick'.entry.last_cycle_date < CYCLE_DAYS) =>
       /\ tick'.outcome = "wait"
       /\ ~tick'.service_called
       /\ StoresUnchanged
       /\ IF tick'.reset = "none"
          THEN state' = state /\ state_file' = state_file
          ELSE /\ state' = AllCursors(tick'.start)
               /\ load_state(state_file') = state']_vars

\* a tick below the threshold, without reset, after a cycle has run
C6_Witness ==
  /\ tick.outcome = "wait"
  /\ tick.reset = "none"
  /\ state.last_cycle_date > state.sim_start_date

\* C7: every decision cycle that starts ends with last_cycle_date equal to
\* current_date and persisted, also when a purchase_car call raises.
C7_Claim ==
  Cycled =>
    /\ state.last_cycle_date = tick.date
    /\ load_state(state_file) = state

\* C8, the failing cycle: a cycle whose service call fails sets last_cycle_date
\* to current_date, keeps last_order_date and writes no store.
C8_FailedCycle ==
  (Step /\ tick'.outcome = "service_failed") =>
    /\ state'.last_cycle_date = tick'.date
    /\ state'.last_order_date = tick'.entry.last_order_date
    /\ load_state(state_file') = state'
    /\ StoresUnchanged

\* C8 as stated: ... and the next service attempt is at least CYCLE_DAYS days
\* later, with the sold query from the same last_order_date.
C8_Claim ==
  [][/\ C8_FailedCycle
     /\ (Step /\ tick'.service_called /\ last_failure.active) =>
          /\ tick'.date - last_failure.date >= CYCLE_DAYS
          /\ tick'.since = last_failure.since]_vars

\* C8 amended: ... and, unless a reset happens in between, the next service
\* attempt is at least CYCLE_DAYS days later, with the sold query from the
\* same last_order_date.
C8_BackoffUnlessReset ==
  [][/\ C8_FailedCycle
     /\ (Step /\ tick'.service_called /\ tick'.after_failure = "yes") =>
          /\ last_failure.active
          /\ tick'.date - last_failure.date >= CYCLE_DAYS
          /\ tick'.since = last_failure.since]_vars

\* a service attempt that follows a failed one with no reset in between
C8_Witness == tick.service_called /\ tick.after_failure = "yes"

\* C9: a cycle that finds too few sales, or an empty pool, sets
\* last_cycle_date to current_date and changes nothing else: no service call,
\* last_order_date and the three stores as they were.
C9_SkippedCycle ==
  [][(Step /\ tick'.outcome \in {"few_sales", "empty_pool"}) =>
       /\ (tick'.outcome = "few_sales") = (tick'.sold_count < MIN_SALES_TO_ORDER)
       /\ state' = [tick'.entry EXCEPT !.last_cycle_date = tick'.date]
       /\ load_state(state_file') = state'
       /\ ~tick'.service_called
       /\ StoresUnchanged]_vars

\* enough sales, but every available market VIN is on the lot already
C9_Witness == tick.outcome = "empty_pool" /\ tick.sold_count >= MIN_SALES_TO_ORDER

\* C10: a tick resets the three cursors to the reported start date exactly
\* when the stored identity is unset, or the stored last_cycle_date is later
\* than current_date, or the reported start date differs from the stored one;
\* otherwise the cursors enter the threshold check unchanged.
C10_ResetRule ==
  [][Step =>
       LET must == \/ state.sim_start_date = None
                   \/ (state.last_cycle_date # None
                         /\ state.last_cycle_date > tick'.date)
                   \/ tick'.start # state.sim_start_date
       IN /\ (tick'.reset # "none") <=> must
          /\ must => tick'.entry = AllCursors(tick'.start)
          /\ ~must => tick'.entry = state]_vars

\* a reset forced by a stored last_cycle_date ahead of the clock
C10_Witness == tick.reset = "stale" /\ tick.start = tick.entry.sim_start_date

\* C11: when the last cycle found fewer than MIN_SALES_TO_ORDER sales and no
\* reset happened since, the next cycle queries from the same last_order_date,
\* its sold set contains that cycle's sold set, and it goes past the sales
\* threshold as soon as the set has MIN_SALES_TO_ORDER rows.
C11_SalesAccumulate ==
  [][(/\ Step
      /\ tick'.outcome \in CycleOutcomes
      /\ tick'.reset = "none"
      /\ hist.prev.outcome = "few_sales") =>
       /\ tick'.since = hist.prev.since
       /\ hist.prev.sold \subseteq hist'.prev.sold
       /\ tick'.sold_count = Cardinality(hist'.prev.sold)
       /\ (tick'.sold_count >= MIN_SALES_TO_ORDER) => (tick'.outcome # "few_sales")]_vars

\* a cycle saw one sale, the next one saw two and placed an order
C11_Witness ==
  /\ hist.prev.outcome = "settled"
  /\ hist.prev.before = 1
  /\ Cardinality(hist.prev.sold) = 2
  /\ Len(tick.purchased) >= 1

\* C12: every row sold in the current run with a sale date at or before
\* last_order_date was in the sold set of a cycle that moved last_order_date.
C12_Claim ==
  \A i \in hist.run_sold :
    (/\ state.sim_start_date # None
     /\ dms[i].sale_date > state.sim_start_date
     /\ dms[i].sale_date <= state.last_order_date) => i \in hist.counted

\* C13: purchase_car writes the lot row (status available), then the market
\* status used for the pool id, then the ledger debit, each committed before
\* the next; when write k raises, the writes before k are in the stores, the
\* writes from k on are not, nothing is undone and the call raises.
C13_WritesInOrder ==
  buy_call.done =>
    LET b == buy_call.before
        k == buy_call.fail_step
        car == CHOOSE c \in {b.sim_cars[i] : i \in 1 .. Len(b.sim_cars)} :
                 c.id = buy_call.car
        lot_written ==
          dms = Append(b.dms, [vin |-> car.vin, make |-> car.make,
                               status |-> "available", sale_date |-> None])
        market_written ==
          /\ Len(sim_cars) = Len(b.sim_cars)
          /\ \A i \in 1 .. Len(sim_cars) :
               sim_cars[i] = IF b.sim_cars[i].id = car.id
                             THEN [b.sim_cars[i] EXCEPT !.status = "used"]
                             ELSE b.sim_cars[i]
        ledger_written ==
          erp = Append(b.erp, [vin |-> car.vin, transaction_date |-> buy_call.date])
    IN /\ buy_call.raised <=> (k # 0)
       /\ IF k = 1 THEN dms = b.dms ELSE lot_written
       /\ IF k \in {1, 2} THEN sim_cars = b.sim_cars ELSE market_written
       /\ IF k = 0 THEN ledger_written ELSE erp = b.erp

\* the ledger write raised: the vehicle is on the lot and used in the market,
\* the ledger has no debit for it
C13_Witness ==
  /\ buy_call.done
  /\ buy_call.raised
  /\ buy_call.fail_step = 3
  /\ Len(dms) = Len(buy_call.before.dms) + 1
  /\ sim_cars # buy_call.before.sim_cars
  /\ erp = buy_call.before.erp

\* the pools a replay of the call with tick t can draw from the stores
ReplayPools(t) ==
  get_candidate_pool(get_sold_cars_since(t.since, dms), dms, sim_cars)

\* the decisions a replay of the call with tick t ends with when the service
\* answers raw again
ReplayDecisions(t, raw) ==
  {Correct(RawSelections(raw), p, t.min_order, t.max_order) : p \in ReplayPools(t)}

\* C14 as stated: in dry-run mode every tick leaves the three stores
\* unchanged, and a replay with the same cursors, date and service answer
\* ends with the same decision.
C14_Claim ==
  [][(Step /\ dry_run) =>
       /\ StoresUnchanged
       /\ (tick'.outcome = "settled") =>
            \A raw \in RawAnswers : Cardinality(ReplayDecisions(tick', raw)) = 1]_vars

\* C14 amended: in dry-run mode every tick leaves the three stores unchanged,
\* and a replay with the same cursors and date sees the same sold set, a pool
\* of the same size and the same order bounds; the decision is the same only
\* when random.sample returns the pool in the same order.
C14_DryRunWritesNothing ==
  [][(Step /\ dry_run) =>
       /\ StoresUnchanged
       /\ (tick'.outcome = "settled") =>
            /\ Len(get_sold_cars_since(tick'.since, dms)) = tick'.sold_count
            /\ \A p \in ReplayPools(tick') :
                 /\ Len(p) = Len(tick'.candidates)
                 /\ min_order_of(tick'.sold_count) = tick'.min_order
                 /\ max_order_of(tick'.sold_count, Len(p)) = tick'.max_order]_vars

\* a dry-run cycle settled with two intended purchases and no store written
C14_Witness ==
  /\ dry_run
  /\ tick.outcome = "settled"
  /\ Len(tick.purchased) = 2
  /\ sim_cars = DryMarket
  /\ erp = << >>
  /\ Len(dms) = Len(InitDms)

\* the selections of the last decision whose car_id is in the pool, in order
InPoolSelections ==
  LET InPool(id) == \E i \in 1 .. Len(tick.candidates) : tick.candidates[i] = id
  IN SelectSeq(tick.selections, InPool)

C16_Claim ==
  pool_call.done =>
    \A p \in pool_call.pools :
      /\ Len(p) <= pool_call.max_candidates
      /\ Cardinality({i \in 1 .. Len(p) :
                        \E j \in 1 .. Len(pool_call.sold_cars) :
                          p[i].make = pool_call.sold_cars[j].make}) <= SAME_MAKE_CAP

\* C17: a poll made while the clock file or a store cannot be read does not
\* end the poll loop, and a call that fails on a store leaves the state file
\* and the three stores as they were.
C17_Claim ==
  [][(alive /\ storage # "ok" /\ (tick' # tick \/ ~alive')) =>
       /\ alive'
       /\ (tick'.outcome \in {"store_error", "clock_error"}) =>
            (state_file' = state_file /\ StoresUnchanged)]_vars

\* C18 as stated: whatever dates the clock shows, no decision cycle runs for
\* a date a cycle of this process has run for already.
C18_Claim ==
  [][(Step /\ tick'.outcome \in CycleOutcomes) => tick'.date \notin hist.cycles]_vars

\* C18 amended: on_date_change is called only for a current_date that differs
\* from last_seen_date, and between two resets no decision cycle runs for a
\* date a cycle has run for already; after a reset a date can get a cycle again.
C18_OneCyclePerDateBetweenResets ==
  [][Step =>
       /\ tick'.date # last_seen_date
       /\ (tick'.outcome \in CycleOutcomes /\ tick'.reset = "none") =>
            /\ tick'.date \notin hist.run_cycles
            /\ \A d \in hist.run_cycles : d < tick'.date]_vars

\* two cycles with no reset between them
C18_Witness ==
  /\ tick.outcome \in CycleOutcomes
  /\ tick.reset = "none"
  /\ Cardinality(hist.run_cycles) >= 2

\* C19: a call of on_date_change that does not reset leaves last_cycle_date
\* and last_order_date each at or after its value before the call, in memory
\* and in the state file.
C19_CursorsMonotone ==
  [][(Step /\ tick'.reset = "none") =>
       /\ state'.last_cycle_date >= state.last_cycle_date
       /\ state'.last_order_date >= state.last_order_date
       /\ state'.sim_start_date = state.sim_start_date
       /\ load_state(state_file').last_cycle_date
            >= load_state(state_file).last_cycle_date
       /\ load_state(state_file').last_order_date
            >= load_state(state_file).last_order_date]_vars

\* a call without reset moved both cursors forward
C19_Witness ==
  /\ tick.reset = "none"
  /\ tick.outcome = "settled"
  /\ tick.entry.last_cycle_date < state.last_cycle_date
  /\ tick.entry.last_order_date < state.last_order_date

\* C20: load_state never raises; it returns AgentState() when the file is
\* absent or does not hold a JSON object, and otherwise a state with each
\* member of the object and None for each member that is missing.
C20_Claim ==
  load_call.done =>
    /\ ~load_call.raised
    /\ IF ~state_file.exists \/ state_file.json # "object"
       THEN load_call.result = AgentState
       ELSE \A k \in StateKeys :
              load_call.result[k] = IF k \in DOMAIN state_file.data
                                    THEN state_file.data[k] ELSE None

\* the indices of a sequence at which its car id occurs for the first time
FirstOccurrences(raw) ==
  {i \in 1 .. Len(raw) : \A j \in 1 .. i - 1 : raw[j].car_id # raw[i].car_id}

\* the elements of s at the indices idx, in the order of s
Restrict(s, idx) ==
  LET f == CHOOSE f \in [1 .. Cardinality(idx) -> idx] :
             \A a, b \in 1 .. Cardinality(idx) : a < b => f[a] < f[b]
  IN [k \in 1 .. Cardinality(idx) |-> s[f[k]]]

RefDedup(raw) == Restrict(raw, FirstOccurrences(raw))

RefTruncate(s, max_order) ==
  IF Len(s) > max_order THEN [i \in 1 .. max_order |-> s[i]] ELSE s

\* pool candidates in pool order whose ids are not selected, each with the
\* synthetic rationale, until min_order is reached or the pool is exhausted
RefBackfill(s, pool, min_order) ==
  IF Len(s) >= min_order THEN s
  ELSE LET ids == {s[i].car_id : i \in 1 .. Len(s)}
           free == Restrict(pool, {i \in 1 .. Len(pool) : pool[i] \notin ids})
           n == IF min_order - Len(s) < Len(free) THEN min_order - Len(s) ELSE Len(free)
       IN s \o [i \in 1 .. n |-> [car_id |-> free[i], reasoning |-> AUTO]]

NoDuplicateIds(s) ==
  \A i, j \in 1 .. Len(s) : i # j => s[i].car_id # s[j].car_id

\* C21 as stated: the correction pass equals the reference that deduplicates,
\* then truncates to max_order when more remain, then backfills to min_order
\* when fewer remain; the result has no duplicate candidate id.
C21_Claim ==
  sel_call.done =>
    /\ sel_call.selections =
         RefBackfill(RefTruncate(RefDedup(RawSelections(sel_call.raw)),
                                 sel_call.max_order),
                     sel_call.candidates, sel_call.min_order)
    /\ NoDuplicateIds(sel_call.selections)

\* C21 amended: the correction pass equals the reference that deduplicates and
\* then either truncates to max_order, when more than max_order remain, or
\* otherwise backfills to min_order, when fewer than min_order remain; the
\* result has no duplicate candidate id.
C21_EqualsReference ==
  sel_call.done =>
    /\ sel_call.selections =
         (LET unique == RefDedup(RawSelections(sel_call.raw))
          IN IF Len(unique) > sel_call.max_order
             THEN RefTruncate(unique, sel_call.max_order)
             ELSE RefBackfill(unique, sel_call.candidates, sel_call.min_order))
    /\ NoDuplicateIds(sel_call.selections)

\* min_order = 2 > max_order = 1: two distinct ids were truncated to one, and
\* the pool's car, not selected any more, was not appended
C21_Witness ==
  /\ sel_call.done
  /\ sel_call.min_order > sel_call.max_order
  /\ Len(RefDedup(RawSelections(sel_call.raw))) > sel_call.max_order
  /\ Len(sel_call.selections) = sel_call.max_order
  /\ \E i \in 1 .. Len(sel_call.candidates) :
       \A k \in 1 .. Len(sel_call.selections) :
         sel_call.selections[k].car_id # sel_call.candidates[i]

\* C22: in every decision cycle that computed the order bounds, the vehicles
\* purchased (the rows added to dms_cars, the market rows marked used, the
\* ledger rows added, the purchase_car calls that returned and the cars
\* appended to purchased) never exceed max_order = min(sold_count + 2,
\* pool_size).
C22_PurchasesWithinMax ==
  [][(Step /\ tick'.service_called) =>
       LET Used(cars) == Cardinality({i \in 1 .. Len(cars) : cars[i].status = "used"})
       IN /\ tick'.max_order = Min(tick'.sold_count + 2, Len(tick'.candidates))
          /\ Len(dms') - Len(dms) <= tick'.max_order
          /\ Used(sim_cars') - Used(sim_cars) <= tick'.max_order
          /\ Len(erp') - Len(erp) <= tick'.max_order
          /\ tick'.committed <= tick'.max_order
          /\ Len(tick'.purchased) <= tick'.max_order]_vars

\* the service selected all of a pool larger than sold_count + 2, and
\* max_order = sold_count + 2 cars were purchased
C22_Witness ==
  /\ ~dry_run
  /\ tick.outcome = "settled"
  /\ Len(tick.candidates) > tick.sold_count + 2
  /\ tick.committed = tick.max_order
  /\ tick.max_order = tick.sold_count + 2

\* min_order exceeded max_order, the decision held more than max_order
\* selections, one with an unknown id, and max_order cars were purchased
C22_WitnessEmptyInterval ==
  /\ ~dry_run
  /\ tick.outcome = "settled"
  /\ tick.min_order > tick.max_order
  /\ Len(tick.selections) > tick.max_order
  /\ tick.committed = tick.max_order

\* C23: for every state load_state can return, after the reset step of
\* on_date_change all three cursors are set: days_elapsed never reads an
\* unset last_cycle_date and the sold query never uses an unset
\* last_order_date.
C23_Claim ==
  tick.outcome # "none" =>
    /\ \A k \in StateKeys : tick.entry[k] # None
    /\ tick.outcome # "type_error"
    /\ Cycled => tick.since # None

====
